---- MODULE Spec2Model ----
(***************************************************************************)
(* Wallet risk scorer: the feature extractor (features/extractor.py), the  *)
(* risk scorer (scoring/risk_scorer.py) and the analyzer that composes     *)
(* them (core/interfaces.py).                                              *)
(*                                                                         *)
(* Numbers.  Python floats are modelled in fixed point: a real r is the    *)
(* integer r * SCALE, truncated.  Counts stay plain integers.  Units:      *)
(*   value, total_value, avg_value, max_value, value_std   ETH * SCALE     *)
(*   ratios, value_concentration, time_regularity           1 * SCALE      *)
(*   days_active (days), transaction_frequency (tx/day)     * SCALE        *)
(*   timestamp, avg_time_between_tx, time_std               seconds        *)
(*   gas_used, avg_gas_used                                 gas            *)
(*   gas_price                                              gwei           *)
(*   avg_gas_price                                          gwei * SCALE   *)
(*   total_gas_cost                                         gwei           *)
(* Strings that the code inspects character by character (function names,  *)
(* wallet identifiers) are sequences of one-character strings.             *)
(***************************************************************************)
EXTENDS Integers, Sequences, FiniteSets, TLC

\* ------------------------------------------------------------ fixed point

\* One unit of the fixed-point representation: 1.0 is SCALE.
SCALE == 10 ^ 4

Min(a, b) == IF a <= b THEN a ELSE b

Max(a, b) == IF a >= b THEN a ELSE b

Abs(a) == IF a < 0 THEN 0 - a ELSE a

\* x * y of two fixed-point numbers.
MulFP(x, y) == (x * y) \div SCALE

\* floor(a * b / c) for a, b >= 0 and c > 0, where (a % c) * b stays small.
MulDiv(a, b, c) == (a \div c) * b + ((a % c) * b) \div c

RECURSIVE DivFP(_, _)
\* a / b as a fixed-point number, a >= 0 and b > 0 in the same unit; large
\* operands are first reduced together so that the products stay in range.
DivFP(a, b) == IF b > 200000 THEN DivFP(a \div 10, b \div 10)
               ELSE MulDiv(a, SCALE, b)

\* The decimal literal n / d as a fixed-point number (Dec(7, 10) is 0.7).
Dec(n, d) == (n * SCALE) \div d

RECURSIVE ISqrtBetween(_, _, _)
\* The largest r in lo..hi with r * r <= n.
ISqrtBetween(n, lo, hi) ==
    IF lo >= hi THEN lo
    ELSE LET mid == (lo + hi + 1) \div 2
         IN  IF mid * mid <= n THEN ISqrtBetween(n, mid, hi)
             ELSE ISqrtBetween(n, lo, mid - 1)

\* floor(sqrt(n)) of an integer n >= 0.
ISqrt(n) == ISqrtBetween(n, 0, 46340)

RECURSIVE SqrtFP(_)
\* math.sqrt / np.sqrt of a fixed-point number x >= 0.
SqrtFP(x) == IF x < 200000 THEN ISqrt(x * SCALE) ELSE 10 * SqrtFP(x \div 100)

RECURSIVE Log2Frac(_, _, _)
\* The fractional bits of log2(m / SCALE) for m in [SCALE, 2*SCALE), by
\* repeated squaring; bit is the weight of the next bit.
Log2Frac(m, bit, n) ==
    IF n = 0 \/ bit = 0 THEN 0
    ELSE LET sq == (m * m) \div SCALE
         IN  IF sq >= 2 * SCALE
             THEN bit + Log2Frac(sq \div 2, bit \div 2, n - 1)
             ELSE Log2Frac(sq, bit \div 2, n - 1)

RECURSIVE Log2FP(_)
\* log2 of a fixed-point number x >= 1.0.
Log2FP(x) == IF x >= 2 * SCALE THEN SCALE + Log2FP(x \div 2)
             ELSE Log2Frac(x, SCALE \div 2, 14)

\* math.log10 of a fixed-point number x >= 1.0: log2(x) * log10(2).
Log10FP(x) == MulFP(Log2FP(x), Dec(301, 1000))

\* ---------------------------------------------------------------- strings

\* str.lower() on one character.
LowerChar(c) ==
    CASE c = "A" -> "a" [] c = "B" -> "b" [] c = "C" -> "c" [] c = "D" -> "d"
      [] c = "E" -> "e" [] c = "F" -> "f" [] c = "G" -> "g" [] c = "H" -> "h"
      [] c = "I" -> "i" [] c = "J" -> "j" [] c = "K" -> "k" [] c = "L" -> "l"
      [] c = "M" -> "m" [] c = "N" -> "n" [] c = "O" -> "o" [] c = "P" -> "p"
      [] c = "Q" -> "q" [] c = "R" -> "r" [] c = "S" -> "s" [] c = "T" -> "t"
      [] c = "U" -> "u" [] c = "V" -> "v" [] c = "W" -> "w" [] c = "X" -> "x"
      [] c = "Y" -> "y" [] c = "Z" -> "z"
      [] OTHER -> c

\* str.lower()
Lower(s) == [i \in 1..Len(s) |-> LowerChar(s[i])]

\* sub in s
Contains(s, sub) ==
    \E i \in 1..(Len(s) + 1) :
        /\ i + Len(sub) - 1 <= Len(s)
        /\ SubSeq(s, i, i + Len(sub) - 1) = sub

HexDigits == {"0", "1", "2", "3", "4", "5", "6", "7", "8", "9",
              "a", "b", "c", "d", "e", "f", "A", "B", "C", "D", "E", "F"}

HexDigitValue(c) ==
    CASE c = "0" -> 0 [] c = "1" -> 1 [] c = "2" -> 2 [] c = "3" -> 3
      [] c = "4" -> 4 [] c = "5" -> 5 [] c = "6" -> 6 [] c = "7" -> 7
      [] c = "8" -> 8 [] c = "9" -> 9
      [] c \in {"a", "A"} -> 10 [] c \in {"b", "B"} -> 11
      [] c \in {"c", "C"} -> 12 [] c \in {"d", "D"} -> 13
      [] c \in {"e", "E"} -> 14 [] c \in {"f", "F"} -> 15

RECURSIVE StripLeft(_)
StripLeft(s) == IF s # <<>> /\ Head(s) = " " THEN StripLeft(Tail(s)) ELSE s

RECURSIVE StripRight(_)
StripRight(s) == IF s # <<>> /\ s[Len(s)] = " "
                 THEN StripRight(SubSeq(s, 1, Len(s) - 1)) ELSE s

\* str.strip(), as int() applies it to its argument.
Strip(s) == StripRight(StripLeft(s))

\* The literal with its optional sign removed.
Unsigned(s) == IF s # <<>> /\ Head(s) \in {"+", "-"} THEN Tail(s) ELSE s

\* The literal with its optional 0x / 0X prefix (and the one underscore that
\* may follow the prefix) removed.
Unprefixed(s) ==
    IF Len(s) >= 2 /\ s[1] = "0" /\ s[2] \in {"x", "X"}
    THEN LET rest == SubSeq(s, 3, Len(s))
         IN  IF rest # <<>> /\ Head(rest) = "_" THEN Tail(rest) ELSE rest
    ELSE s

\* Hexadecimal digits, single underscores allowed between two digits.
IsHexDigits(s) ==
    /\ s # <<>>
    /\ s[1] \in HexDigits
    /\ s[Len(s)] \in HexDigits
    /\ \A i \in 1..Len(s) : s[i] \in HexDigits \cup {"_"}
    /\ \A i \in 1..(Len(s) - 1) : ~(s[i] = "_" /\ s[i + 1] = "_")

\* Whether int(s, 16) returns (TRUE) or raises ValueError (FALSE).
ParsesAsHex(s) == IsHexDigits(Unprefixed(Unsigned(Strip(s))))

RECURSIVE HexMod(_, _, _)
\* The value of the hexadecimal digits of s, modulo m, given the value acc
\* of the digits already read (Python integers are unbounded; only the
\* residue is kept).
HexMod(s, acc, m) ==
    IF s = <<>> THEN acc
    ELSE IF Head(s) = "_" THEN HexMod(Tail(s), acc, m)
    ELSE HexMod(Tail(s), (acc * 16 + HexDigitValue(Head(s))) % m, m)

\* int(s, 16) % m for a literal that parses; Python's % takes the sign of m.
IntHexMod(s, m) ==
    LET t == Strip(s)
        v == HexMod(Unprefixed(Unsigned(t)), 0, m)
    IN  IF Head(t) = "-" THEN (m - v) % m ELSE v

\* ------------------------------------------------------------ risk scorer

\* dict.get(key, default)
Get(features, key, default) ==
    IF key \in DOMAIN features THEN features[key] ELSE default

\* Faulty variant: the four-factor weights kept beside the two added factors.
InitialWeights_FourFactorKept ==
    [liquidation_risk     |-> Dec(35, 100),
     leverage_risk        |-> Dec(25, 100),
     activity_risk        |-> Dec(20, 100),
     behavioral_risk      |-> Dec(20, 100),
     trading_pattern_risk |-> Dec(15, 100),
     technical_risk       |-> Dec(15, 100)]

\* CompoundRiskScorer.__init__: self.weights
InitialWeights ==
    [liquidation_risk     |-> Dec(20, 100),
     leverage_risk        |-> Dec(20, 100),
     activity_risk        |-> Dec(15, 100),
     behavioral_risk      |-> Dec(15, 100),
     trading_pattern_risk |-> Dec(15, 100),
     technical_risk       |-> Dec(15, 100)]

\* Faulty variant: the first 8 characters are read instead of the last 8.
get_wallet_entropy_FirstEight(wallet_id) ==
    IF wallet_id = <<>> \/ Len(wallet_id) < 8 THEN 0
    ELSE LET first8 == SubSeq(wallet_id, 1, 8)
         IN  IF ParsesAsHex(first8)
             THEN DivFP(IntHexMod(first8, 1000), 10000)
             ELSE 0

\* CompoundRiskScorer._get_wallet_entropy
get_wallet_entropy(wallet_id) ==
    IF wallet_id = <<>> \/ Len(wallet_id) < 8 THEN 0
    ELSE LET last8 == SubSeq(wallet_id, Len(wallet_id) - 7, Len(wallet_id))
         IN  IF ParsesAsHex(last8)
             THEN LET hash_val_mod == IntHexMod(last8, 1000)
                  IN  DivFP(hash_val_mod, 10000)
             ELSE 0

\* CompoundRiskScorer._normalize_value
normalize_value(value, min_val, max_val) ==
    IF value <= 0 THEN 0
    ELSE Min(SCALE, DivFP(Log10FP(value + SCALE), Log10FP(max_val + SCALE)))

\* Faulty variant: the liquidation term is not capped at 1.0.
calculate_liquidation_risk_Uncapped(features) ==
    LET liquidation_risk == DivFP(features["liquidation_count"], 3)
        function_risk    ==
            Min(Dec(9, 10), MulFP(features["risky_function_ratio"], Dec(12, 10)))
    IN  MulFP(liquidation_risk, Dec(7, 10)) + MulFP(function_risk, Dec(3, 10))

\* Faulty variant: the liquidation term wraps around at 3 instead of saturating.
calculate_liquidation_risk_Wrapping(features) ==
    LET liquidation_risk == DivFP(features["liquidation_count"] % 3, 3)
        function_risk    ==
            Min(Dec(9, 10), MulFP(features["risky_function_ratio"], Dec(12, 10)))
    IN  MulFP(liquidation_risk, Dec(7, 10)) + MulFP(function_risk, Dec(3, 10))

\* CompoundRiskScorer._calculate_liquidation_risk
calculate_liquidation_risk(features) ==
    LET liquidation_count == features["liquidation_count"]
        liquidation_risk  == Min(SCALE, DivFP(liquidation_count, 3))
        risky_functions   == features["risky_function_ratio"]
        function_risk     == Min(Dec(9, 10), MulFP(risky_functions, Dec(12, 10)))
    IN  MulFP(liquidation_risk, Dec(7, 10)) + MulFP(function_risk, Dec(3, 10))

\* Faulty variant: the concentration term with cap 0.9 and factor 1.1.
calculate_leverage_risk_OtherConcentration(features) ==
    LET max_value == features["max_value"]
        size_risk ==
            IF max_value <= 0
            THEN Min(Dec(6, 10), Get(features, "total_gas_cost", 0) \div 2000)
            ELSE Min(Dec(95, 100),
                     MulFP(normalize_value(max_value, Dec(1, 1000), 1000 * SCALE),
                           Dec(12, 10)))
        concentration_risk ==
            Min(Dec(9, 10), MulFP(features["value_concentration"], Dec(11, 10)))
        value_volatility ==
            Min(SCALE, DivFP(features["value_std"], Max(max_value, Dec(1, 1000))))
    IN  MulFP(size_risk, Dec(4, 10)) + MulFP(concentration_risk, Dec(4, 10))
          + MulFP(value_volatility, Dec(2, 10))

\* CompoundRiskScorer._calculate_leverage_risk
calculate_leverage_risk(features) ==
    LET max_value           == features["max_value"]
        value_concentration == features["value_concentration"]
        \* total_gas_cost / 10**18 / 0.02, total_gas_cost in gwei
        gas_ratio           == Get(features, "total_gas_cost", 0) \div 2000
        size_risk ==
            IF max_value <= 0 THEN Min(Dec(6, 10), gas_ratio)
            ELSE Min(Dec(95, 100),
                     MulFP(normalize_value(max_value, Dec(1, 1000), 1000 * SCALE),
                           Dec(12, 10)))
        concentration_risk == Min(Dec(95, 100),
                                  MulFP(value_concentration, Dec(15, 10)))
        value_volatility ==
            Min(SCALE, DivFP(features["value_std"], Max(max_value, Dec(1, 1000))))
    IN  MulFP(size_risk, Dec(4, 10)) + MulFP(concentration_risk, Dec(4, 10))
          + MulFP(value_volatility, Dec(2, 10))

\* CompoundRiskScorer._calculate_activity_risk
calculate_activity_risk(features) ==
    LET frequency   == features["transaction_frequency"]
        days_active == features["days_active"]
        frequency_risk ==
            IF frequency < Dec(1, 10)
            THEN Dec(3, 10) + (Dec(1, 10) - frequency) * 2
            ELSE IF frequency > 3 * SCALE
            THEN Min(Dec(9, 10),
                     Dec(4, 10) + MulFP(frequency - 3 * SCALE, Dec(1, 10)))
            ELSE Dec(1, 10) + MulFP(frequency, Dec(1, 10))
        time_risk ==
            Max(Dec(1, 10),
                Min(Dec(8, 10), DivFP(SCALE, SqrtFP(days_active + SCALE))))
        irregularity      == SCALE - features["time_regularity"]
        irregularity_risk == Min(Dec(7, 10), MulFP(irregularity, Dec(8, 10)))
    IN  MulFP(frequency_risk, Dec(4, 10)) + MulFP(time_risk, Dec(4, 10))
          + MulFP(irregularity_risk, Dec(2, 10))

\* CompoundRiskScorer._calculate_behavioral_risk
calculate_behavioral_risk(features) ==
    LET function_diversity == features["function_diversity"]
        safe_ratio         == features["safe_function_ratio"]
        unique_contracts   == features["unique_contracts"]
        diversity_risk ==
            Max(Dec(1, 10),
                Min(Dec(8, 10),
                    DivFP(SCALE, function_diversity * SCALE + Dec(5, 10))))
        \* (1.0 - safe_ratio) ** 1.5
        unsafe      == SCALE - safe_ratio
        safety_risk == MulFP(unsafe, SqrtFP(unsafe))
        contract_risk ==
            Max(Dec(1, 10),
                Min(Dec(7, 10),
                    DivFP(Dec(8, 10),
                          SqrtFP(unique_contracts * SCALE + Dec(5, 10)))))
        avg_gas == Get(features, "avg_gas_used", 0)
        gas_efficiency_risk ==
            IF avg_gas > 0 THEN Min(Dec(3, 10), DivFP(avg_gas, 500000))
            ELSE Dec(1, 10)
    IN  MulFP(diversity_risk, Dec(3, 10)) + MulFP(safety_risk, Dec(3, 10))
          + MulFP(contract_risk, Dec(3, 10))
          + MulFP(gas_efficiency_risk, Dec(1, 10))

\* _calculate_trading_pattern_risk: flash_loan_indicators
flash_loan_indicators == {<<"f", "l", "a", "s", "h", "l", "o", "a", "n">>,
     <<"f", "l", "a", "s", "h">>,
     <<"b", "o", "r", "r", "o", "w">>,
     <<"l", "i", "q", "u", "i", "d", "a", "t", "e">>}

\* sum(1 for func in function_names if any(indicator in func.lower() ...))
flash_loan_usage(function_names) ==
    Cardinality({i \in 1..Len(function_names) :
        \E indicator \in flash_loan_indicators :
            Contains(Lower(function_names[i]), indicator)})

\* CompoundRiskScorer._calculate_trading_pattern_risk
calculate_trading_pattern_risk(features) ==
    LET function_names == Get(features, "function_names", <<>>)
        flash_loan_risk ==
            Min(Dec(9, 10),
                DivFP(flash_loan_usage(function_names),
                      Max(Len(function_names), 1)) * 3)
        max_value == Get(features, "max_value", 0)
        avg_value == Get(features, "avg_value", Dec(1, 1000))
        position_sizing_risk ==
            IF max_value > 0 /\ avg_value > 0
            THEN Min(Dec(8, 10),
                     DivFP(max_value, Max(avg_value, Dec(1, 1000))) \div 15)
            ELSE Dec(1, 10)
        time_std     == Get(features, "time_std", 0)
        avg_interval == Get(features, "avg_time_between_tx", 86400)
        panic_trading_risk ==
            IF avg_interval > 0
            THEN Min(Dec(7, 10), DivFP(time_std, avg_interval) \div 5)
            ELSE Dec(2, 10)
        value_std == Get(features, "value_std", 0)
        volatility_risk ==
            IF avg_value > 0
            THEN Min(Dec(8, 10), MulFP(DivFP(value_std, avg_value), Dec(5, 10)))
            ELSE Dec(1, 10)
        final_risk ==
            Max(0, MulFP(flash_loan_risk, Dec(3, 10))
                     + MulFP(position_sizing_risk, Dec(3, 10))
                     + MulFP(panic_trading_risk, Dec(2, 10))
                     + MulFP(volatility_risk, Dec(2, 10)))
    IN  Min(SCALE, final_risk)

\* CompoundRiskScorer._calculate_technical_risk
calculate_technical_risk(features) ==
    LET avg_gas_price == Get(features, "avg_gas_price", 0)
        \* avg_gas_price / 1e9 / 100, avg_gas_price in gwei
        normalized_gas == Min(SCALE, avg_gas_price \div 100)
        gas_efficiency_risk ==
            IF avg_gas_price > 0
            THEN Min(Dec(9, 10), Dec(2, 10) + MulFP(normalized_gas, Dec(7, 10)))
            ELSE Dec(2, 10)
        function_diversity == Get(features, "function_diversity", 1)
        failure_risk       == Min(Dec(8, 10), DivFP(function_diversity, 10))
        unique_contracts   == Get(features, "unique_contracts", 1)
        contract_interaction_risk == Min(Dec(9, 10), DivFP(unique_contracts, 5))
        frequency == Get(features, "transaction_frequency", 0)
        overtrading_risk ==
            IF frequency > Dec(5, 10)
            THEN Min(Dec(9, 10),
                     Dec(1, 10) + MulFP(frequency - Dec(5, 10), Dec(3, 10)))
            ELSE Dec(1, 10)
    IN  MulFP(gas_efficiency_risk, Dec(3, 10)) + MulFP(failure_risk, Dec(2, 10))
          + MulFP(contract_interaction_risk, Dec(3, 10))
          + MulFP(overtrading_risk, Dec(2, 10))

\* The keys the sub-score functions read by features[key]: a missing one
\* raises KeyError.
IndexedKeys ==
    {"liquidation_count", "risky_function_ratio",
     "max_value", "value_concentration", "value_std",
     "transaction_frequency", "days_active", "time_regularity",
     "function_diversity", "safe_function_ratio", "unique_contracts"}

\* Faulty variant: the wallet entropy is added to a sub-score.
SubScores_EntropyInTechnical(features) ==
    [liquidation_risk     |-> calculate_liquidation_risk(features),
     leverage_risk        |-> calculate_leverage_risk(features),
     activity_risk        |-> calculate_activity_risk(features),
     behavioral_risk      |-> calculate_behavioral_risk(features),
     trading_pattern_risk |-> calculate_trading_pattern_risk(features),
     technical_risk       |->
         calculate_technical_risk(features)
           + MulFP(get_wallet_entropy(Get(features, "wallet_id", <<>>)),
                   Dec(5, 100))]

\* calculate_score, lines 21-26: the six sub-scores.
SubScores(features) ==
    [liquidation_risk     |-> calculate_liquidation_risk(features),
     leverage_risk        |-> calculate_leverage_risk(features),
     activity_risk        |-> calculate_activity_risk(features),
     behavioral_risk      |-> calculate_behavioral_risk(features),
     trading_pattern_risk |-> calculate_trading_pattern_risk(features),
     technical_risk       |-> calculate_technical_risk(features)]

\* calculate_score, lines 28-35: weighted_score
WeightedScore(w, sub) ==
    MulFP(sub.liquidation_risk, w.liquidation_risk)
      + MulFP(sub.leverage_risk, w.leverage_risk)
      + MulFP(sub.activity_risk, w.activity_risk)
      + MulFP(sub.behavioral_risk, w.behavioral_risk)
      + MulFP(sub.trading_pattern_risk, w.trading_pattern_risk)
      + MulFP(sub.technical_risk, w.technical_risk)

\* int(x * 1000) of a fixed-point x: truncation toward zero.
IntTimes1000(x) ==
    IF x >= 0 THEN (x * 1000) \div SCALE ELSE 0 - (((0 - x) * 1000) \div SCALE)

\* Faulty variant: the scaled value is rounded to the nearest integer.
FinalScore_Rounded(adjusted_score) ==
    Min(1000, Max(0, (adjusted_score * 1000 + SCALE \div 2) \div SCALE))

\* calculate_score, line 41: final_score
FinalScore(adjusted_score) == Min(1000, Max(0, IntTimes1000(adjusted_score)))

\* Faulty variant: a single transaction counts as no data.
IsNotApplicable_AtMostOne(features) == features["total_transactions"] <= 1

\* calculate_score, line 18: the test for the sentinel
IsNotApplicable(features) == features["total_transactions"] = 0

\* What a call of calculate_score does, with the locals it computed: kind is
\* "NA" (the sentinel is returned), "int" (value is returned) or "KeyError"
\* (the call raises).
Outcome(kind, value, sub, weighted, adj) ==
    [kind |-> kind, value |-> value, sub_scores |-> sub,
     weighted_score |-> weighted, adjusted_score |-> adj]

NoSubScores ==
    [liquidation_risk |-> 0, leverage_risk |-> 0, activity_risk |-> 0,
     behavioral_risk |-> 0, trading_pattern_risk |-> 0, technical_risk |-> 0]

\* CompoundRiskScorer.calculate_score
calculate_score(w, features) ==
    IF "total_transactions" \notin DOMAIN features
    THEN Outcome("KeyError", 0, NoSubScores, 0, 0)
    ELSE IF IsNotApplicable(features)
    THEN Outcome("NA", 0, NoSubScores, 0, 0)
    ELSE IF ~(IndexedKeys \subseteq DOMAIN features)
    THEN Outcome("KeyError", 0, NoSubScores, 0, 0)
    ELSE LET sub            == SubScores(features)
             weighted_score == WeightedScore(w, sub)
             wallet_entropy ==
                 get_wallet_entropy(Get(features, "wallet_id", <<>>))
             adjusted_score == weighted_score + MulFP(wallet_entropy, Dec(5, 100))
         IN  Outcome("int", FinalScore(adjusted_score), sub, weighted_score,
                     adjusted_score)

\* ------------------------------------------------------ feature extractor

RECURSIVE Sum(_)
\* sum(xs)
Sum(xs) == IF xs = <<>> THEN 0 ELSE Head(xs) + Sum(Tail(xs))

\* max(xs), min(xs) of a non-empty list
MaxOf(xs) == CHOOSE x \in {xs[i] : i \in 1..Len(xs)} :
                 \A j \in 1..Len(xs) : xs[j] <= x

MinOf(xs) == CHOOSE x \in {xs[i] : i \in 1..Len(xs)} :
                 \A j \in 1..Len(xs) : xs[j] >= x

\* np.mean(xs) of a non-empty list, in the unit of xs
Mean(xs) == Sum(xs) \div Len(xs)

\* np.std(xs) of a non-empty list of fixed-point numbers (population std)
StdFP(xs) ==
    LET m  == Mean(xs)
        sq == [i \in 1..Len(xs) |-> MulFP(Abs(xs[i] - m), Abs(xs[i] - m))]
    IN  SqrtFP(Mean(sq))

\* np.std(xs) of a non-empty list of integers (seconds), to the second
StdInt(xs) ==
    LET m  == Mean(xs)
        sq == [i \in 1..Len(xs) |->
                 MulDiv(Abs(xs[i] - m), Abs(xs[i] - m), Len(xs))]
    IN  ISqrt(Sum(sq))

\* CompoundFeatureExtractor._extract_basic_features
extract_basic_features(transactions) ==
    LET values == [i \in 1..Len(transactions) |-> transactions[i].value]
    IN  [total_transactions |-> Len(transactions),
         unique_contracts   |->
             Cardinality({transactions[i].to_address :
                              i \in 1..Len(transactions)}),
         total_value        |-> Sum(values),
         avg_value          |-> IF transactions # <<>> THEN Mean(values) ELSE 0]

\* Faulty variant: the days are counted inclusively, first and last day both.
extract_frequency_features_InclusiveDays(transactions) ==
    IF transactions = <<>>
    THEN [transaction_frequency |-> 0, days_active |-> 0]
    ELSE LET timestamps ==
                 [i \in 1..Len(transactions) |-> transactions[i].timestamp]
             time_span   == MaxOf(timestamps) - MinOf(timestamps)
             days_active == DivFP(time_span, 86400) + SCALE
         IN  [transaction_frequency |->
                  DivFP(Len(transactions) * SCALE, Max(days_active, SCALE)),
              days_active |-> days_active]

\* CompoundFeatureExtractor._extract_frequency_features
extract_frequency_features(transactions) ==
    IF transactions = <<>>
    THEN [transaction_frequency |-> 0, days_active |-> 0]
    ELSE LET timestamps ==
                 [i \in 1..Len(transactions) |-> transactions[i].timestamp]
             time_span   == MaxOf(timestamps) - MinOf(timestamps)
             days_active == IF time_span > 0 THEN DivFP(time_span, 86400)
                            ELSE SCALE
         IN  [transaction_frequency |->
                  DivFP(Len(transactions) * SCALE, Max(days_active, SCALE)),
              days_active |-> days_active]

\* Faulty variant: nothing is returned when no transaction has a positive value.
extract_value_features_NoDefaults(transactions) ==
    LET all    == [i \in 1..Len(transactions) |-> transactions[i].value]
        values == SelectSeq(all, LAMBDA v : v > 0)
    IN  IF values = <<>> THEN [k \in {} |-> 0]
        ELSE [value_std |-> StdFP(values),
              max_value |-> MaxOf(values),
              value_concentration |->
                  IF Sum(values) > 0 THEN DivFP(MaxOf(values), Sum(values))
                  ELSE 0]

\* CompoundFeatureExtractor._extract_value_features
extract_value_features(transactions) ==
    LET all    == [i \in 1..Len(transactions) |-> transactions[i].value]
        values == SelectSeq(all, LAMBDA v : v > 0)
    IN  IF values = <<>>
        THEN [value_std |-> 0, max_value |-> 0, value_concentration |-> 0]
        ELSE [value_std |-> StdFP(values),
              max_value |-> MaxOf(values),
              value_concentration |->
                  IF Sum(values) > 0 THEN DivFP(MaxOf(values), Sum(values))
                  ELSE 0]

\* CompoundFeatureExtractor._extract_gas_features
extract_gas_features(transactions) ==
    LET gas_used   == [i \in 1..Len(transactions) |-> transactions[i].gas_used]
        gas_prices == [i \in 1..Len(transactions) |-> transactions[i].gas_price]
    IN  [avg_gas_used   |-> IF gas_used # <<>> THEN Mean(gas_used) ELSE 0,
         avg_gas_price  |-> IF gas_prices # <<>>
                            THEN DivFP(Sum(gas_prices), Len(gas_prices)) ELSE 0,
         total_gas_cost |->
             Sum([i \in 1..Len(transactions) |->
                      transactions[i].gas_used * transactions[i].gas_price])]

\* CompoundFeatureExtractor._extract_temporal_features
extract_temporal_features(transactions) ==
    IF Len(transactions) < 2
    THEN [avg_time_between_tx |-> 0, time_regularity |-> 0, time_std |-> 0]
    ELSE LET timestamps ==
                 SortSeq([i \in 1..Len(transactions) |->
                              transactions[i].timestamp],
                         LAMBDA a, b : a < b)
             intervals ==
                 [i \in 1..(Len(timestamps) - 1) |->
                      timestamps[i + 1] - timestamps[i]]
         IN  [avg_time_between_tx |-> Mean(intervals),
              time_regularity     |-> DivFP(1, 1 + StdInt(intervals)),
              time_std            |-> StdInt(intervals)]

\* _extract_function_features: risky_functions, safe_functions
risky_functions == {<<"l", "i", "q", "u", "i", "d", "a", "t", "e", "B", "o", "r", "r", "o", "w">>,
     <<"r", "e", "p", "a", "y", "B", "o", "r", "r", "o", "w">>,
     <<"b", "o", "r", "r", "o", "w">>,
     <<"a", "b", "s", "o", "r", "b">>,
     <<"b", "u", "y", "C", "o", "l", "l", "a", "t", "e", "r", "a", "l">>}

safe_functions == {<<"m", "i", "n", "t">>,
     <<"r", "e", "d", "e", "e", "m">>,
     <<"t", "r", "a", "n", "s", "f", "e", "r">>,
     <<"s", "u", "p", "p", "l", "y">>,
     <<"w", "i", "t", "h", "d", "r", "a", "w">>}

\* Faulty variant: the ratios are taken over the named transactions only.
extract_function_features_NamedOnly(transactions) ==
    LET names     == [i \in 1..Len(transactions) |->
                          transactions[i].function_name]
        functions == SelectSeq(names, LAMBDA f : f # <<>>)
        IsRisky(f) == \E r \in risky_functions : Contains(Lower(f), Lower(r))
        IsSafe(f)  == \E r \in safe_functions : Contains(Lower(f), Lower(r))
        IsLiquidation(f) == Contains(Lower(f), <<"l", "i", "q", "u", "i", "d", "a", "t", "e", "b", "o", "r", "r", "o", "w">>)
        risky_count == Cardinality({i \in 1..Len(functions) :
                                        IsRisky(functions[i])})
        safe_count  == Cardinality({i \in 1..Len(functions) :
                                        IsSafe(functions[i])})
        liquidation_count == Cardinality({i \in 1..Len(functions) :
                                              IsLiquidation(functions[i])})
    IN  [function_diversity   |->
             Cardinality({functions[i] : i \in 1..Len(functions)}),
         risky_function_ratio |->
             IF functions # <<>>
             THEN DivFP(risky_count, Len(functions)) ELSE 0,
         safe_function_ratio  |->
             IF functions # <<>>
             THEN DivFP(safe_count, Len(functions)) ELSE 0,
         liquidation_count    |-> liquidation_count,
         function_names       |-> functions]

\* CompoundFeatureExtractor._extract_function_features
extract_function_features(transactions) ==
    LET names     == [i \in 1..Len(transactions) |->
                          transactions[i].function_name]
        functions == SelectSeq(names, LAMBDA f : f # <<>>)
        IsRisky(f) == \E r \in risky_functions : Contains(Lower(f), Lower(r))
        IsSafe(f)  == \E r \in safe_functions : Contains(Lower(f), Lower(r))
        IsLiquidation(f) == Contains(Lower(f), <<"l", "i", "q", "u", "i", "d", "a", "t", "e", "b", "o", "r", "r", "o", "w">>)
        risky_count == Cardinality({i \in 1..Len(functions) :
                                        IsRisky(functions[i])})
        safe_count  == Cardinality({i \in 1..Len(functions) :
                                        IsSafe(functions[i])})
        liquidation_count == Cardinality({i \in 1..Len(functions) :
                                              IsLiquidation(functions[i])})
    IN  [function_diversity   |->
             Cardinality({functions[i] : i \in 1..Len(functions)}),
         risky_function_ratio |->
             IF transactions # <<>>
             THEN DivFP(risky_count, Len(transactions)) ELSE 0,
         safe_function_ratio  |->
             IF transactions # <<>>
             THEN DivFP(safe_count, Len(transactions)) ELSE 0,
         liquidation_count    |-> liquidation_count,
         function_names       |-> functions]

\* CompoundFeatureExtractor._get_default_features
get_default_features ==
    [total_transactions    |-> 0,
     unique_contracts      |-> 0,
     total_value           |-> 0,
     avg_value             |-> 0,
     transaction_frequency |-> 0,
     days_active           |-> 0,
     value_std             |-> 0,
     max_value             |-> 0,
     value_concentration   |-> 0,
     avg_gas_used          |-> 0,
     avg_gas_price         |-> 0,
     total_gas_cost        |-> 0,
     avg_time_between_tx   |-> 0,
     time_regularity       |-> 0,
     time_std              |-> 0,
     function_diversity    |-> 0,
     risky_function_ratio  |-> 0,
     safe_function_ratio   |-> 0,
     liquidation_count     |-> 0,
     function_names        |-> <<>>]

\* dict.update: the entries of d, overridden and extended by those of e.
Update(d, e) == [k \in DOMAIN d \cup DOMAIN e |->
                     IF k \in DOMAIN e THEN e[k] ELSE d[k]]

\* CompoundFeatureExtractor.extract_features
extract_features(transactions) ==
    IF transactions = <<>> THEN get_default_features
    ELSE Update(Update(Update(Update(Update(
             extract_basic_features(transactions),
             extract_frequency_features(transactions)),
             extract_value_features(transactions)),
             extract_gas_features(transactions)),
             extract_temporal_features(transactions)),
             extract_function_features(transactions))

\* WalletRiskAnalyzer.analyze_wallet, line 55: features["wallet_id"] = ...
InjectWalletId(features, wallet_address) ==
    Update(features, [wallet_id |-> wallet_address])

\* ----------------------------------------------------------------- inputs

\* The longest transaction history a wallet has.
MaxTx == 3

\* The largest liquidation_count of a feature vector passed to the scorer.
MaxLiquidations == 4

\* The most characters that follow an identifier's prefix.
MaxIdLen == 8

\* The most calls of calculate_score made on one scorer.
MaxCalls == 2

\* The most calls of calculate_score whose arguments and outcomes are
\* recorded.
MaxHistory == 3

\* The most wallet addresses in the input file of a batch.
MaxWallets == 3

\* Function names (Transaction.function_name).
FnBorrow == <<"b", "o", "r", "r", "o", "w">>

FnRepayBorrow == <<"r", "e", "p", "a", "y", "B", "o", "r", "r", "o", "w">>

FnLiquidateBorrow == <<"l", "i", "q", "u", "i", "d", "a", "t", "e", "B", "o", "r", "r", "o", "w">>

FnMint == <<"m", "i", "n", "t">>

FnRedeem == <<"r", "e", "d", "e", "e", "m">>

FnSupply == <<"s", "u", "p", "p", "l", "y">>

\* Transactions the data provider may return (Transaction, interfaces.py);
\* the fields the extractor does not read are left out.
TxPool ==
    {[function_name |-> FnBorrow, value |-> 0, gas_used |-> 21000,
      gas_price |-> 20, timestamp |-> 1000, to_address |-> "cETH"],
     [function_name |-> FnRepayBorrow, value |-> 0, gas_used |-> 21000,
      gas_price |-> 20, timestamp |-> 87400, to_address |-> "cETH"],
     [function_name |-> FnLiquidateBorrow, value |-> 2 * SCALE,
      gas_used |-> 150000, gas_price |-> 50, timestamp |-> 44200,
      to_address |-> "cDAI"],
     [function_name |-> FnMint, value |-> Dec(1, 2), gas_used |-> 60000,
      gas_price |-> 20, timestamp |-> 1000, to_address |-> "cDAI"],
     [function_name |-> <<>>, value |-> SCALE, gas_used |-> 21000,
      gas_price |-> 10, timestamp |-> 87400, to_address |-> "other"]}

\* The histories of at most MaxTx transactions.
Histories == UNION {[1..n -> TxPool] : n \in 0..MaxTx}

\* Wallet identifiers: empty, the example wallet (last 8 characters ABCDEF01,
\* residue 1), one of residue 999, and one that is no hexadecimal literal.
WalletIds ==
    {<<>>,
     <<"0", "x", "A", "B", "C", "D", "E", "F", "0", "1">>,
     <<"0", "x", "0", "0", "0", "0", "0", "3", "e", "7">>,
     <<"n", "o", "t", "-", "a", "-", "h", "e", "x", "-", "i", "d">>}

\* Feature vectors handed to the scorer directly, as the product of the
\* inputs of each group of features.
LiquidationInputs ==
    {[liquidation_count |-> c, risky_function_ratio |-> r] :
         c \in 0..MaxLiquidations, r \in {Dec(1, 2), SCALE}}

ValueInputs ==
    {[total_value |-> 0, avg_value |-> 0, max_value |-> 0, value_std |-> 0,
      value_concentration |-> 0, total_gas_cost |-> 420000],
     [total_value |-> 0, avg_value |-> 0, max_value |-> 0, value_std |-> 0,
      value_concentration |-> 0, total_gas_cost |-> 30000000],
     [total_value |-> Dec(1, 2), avg_value |-> Dec(1, 2),
      max_value |-> Dec(1, 2), value_std |-> 0,
      value_concentration |-> SCALE, total_gas_cost |-> 420000],
     [total_value |-> 600 * SCALE, avg_value |-> 200 * SCALE,
      max_value |-> 500 * SCALE, value_std |-> 212 * SCALE,
      value_concentration |-> Dec(5, 6), total_gas_cost |-> 7500000]}

ActivityInputs ==
    {[transaction_frequency |-> Dec(5, 100), days_active |-> 100 * SCALE,
      time_regularity |-> 0, avg_time_between_tx |-> 2160000,
      time_std |-> 4000000],
     [transaction_frequency |-> 2 * SCALE, days_active |-> SCALE,
      time_regularity |-> SCALE, avg_time_between_tx |-> 86400,
      time_std |-> 0],
     [transaction_frequency |-> 12 * SCALE, days_active |-> Dec(1, 2),
      time_regularity |-> Dec(1, 100), avg_time_between_tx |-> 0,
      time_std |-> 99]}

BehaviorInputs ==
    {[total_transactions |-> 0, function_diversity |-> 0,
      safe_function_ratio |-> 0, unique_contracts |-> 0, avg_gas_used |-> 0,
      function_names |-> <<>>],
     [total_transactions |-> 1, function_diversity |-> 1,
      safe_function_ratio |-> 0, unique_contracts |-> 1,
      avg_gas_used |-> 21000, function_names |-> <<FnBorrow>>],
     [total_transactions |-> 4, function_diversity |-> 3,
      safe_function_ratio |-> Dec(3, 4), unique_contracts |-> 6,
      avg_gas_used |-> 200000,
      function_names |-> <<FnMint, FnRedeem, FnSupply>>]}

GasPriceInputs ==
    {[avg_gas_price |-> 0], [avg_gas_price |-> 20 * SCALE],
     [avg_gas_price |-> 150 * SCALE]}

InputVectors ==
    {Update(Update(Update(Update(Update(l, v), a), b), g), [wallet_id |-> w]) :
         l \in LiquidationInputs, v \in ValueInputs, a \in ActivityInputs,
         b \in BehaviorInputs, g \in GasPriceInputs, w \in WalletIds}

\* The vectors from which a caller may leave one key out.
SparseSources ==
    {v \in InputVectors :
         /\ v["liquidation_count"] = 0
         /\ v["risky_function_ratio"] = SCALE
         /\ v["avg_gas_price"] = 0
         /\ v["total_gas_cost"] = 420000
         /\ v["transaction_frequency"] = 2 * SCALE}

Without(v, key) == [k \in DOMAIN v \ {key} |-> v[k]]

SparseVectors == {Without(v, key) : v \in SparseSources,
                                    key \in DOMAIN get_default_features \cup {"wallet_id"}}

\* ------------------------------------------------------------------ state

VARIABLES
    weights,         \* CompoundRiskScorer.weights
    wallet_address,  \* the wallet identifier of the call in progress
    transactions,    \* the history the data provider returned for it
    features,        \* the feature mapping: extracted, or handed to the scorer
    result,          \* what the last call of calculate_score did
    entropy,         \* what the last call of _get_wallet_entropy returned
    calls,           \* the number of calculate_score calls so far
    history,         \* the calls of calculate_score made on the scorer, in
                     \* order: the vector passed and what the call did
    wallet_addresses,\* main: the addresses loaded from the input file
    position,        \* main: the number of loop iterations completed
    scores,          \* main: the list of WalletRiskScore records
    fetched,         \* what analyze_wallet met for each wallet processed:
                     \* an exception, or the history the provider returned
    data,            \* CSVExporter.export_scores: the rows handed to the
                     \* data frame
    phase            \* "input": a caller holds a feature vector;
                     \* "fetched": the data provider has returned;
                     \* "scored", "extracted", "analyzed", "entropy": the
                     \* operation that has returned

batch == <<wallet_addresses, position, scores, fetched, data>>

vars == <<weights, wallet_address, transactions, features, result, entropy,
          calls, history, wallet_addresses, position, scores, fetched, data,
          phase>>

NoResult == Outcome("none", 0, NoSubScores, 0, 0)

NoFeatures == [k \in {} |-> 0]

\* The state after CompoundRiskScorer() is constructed, before any call.
Constructed ==
    /\ weights = InitialWeights
    /\ result = NoResult
    /\ entropy = 0
    /\ calls = 0
    /\ history = <<>>

\* No batch is being processed.
NoBatch ==
    /\ wallet_addresses = <<>>
    /\ position = 0
    /\ scores = <<>>
    /\ fetched = <<>>
    /\ data = <<>>

\* ------------------------------------------------- scorer and analyzer

\* Either a caller holds a feature vector (complete, or with one key left
\* out), or the analyzer was asked for a wallet and the data provider has
\* returned its history.
Init ==
    /\ Constructed
    /\ NoBatch
    /\ \/ /\ phase = "input"
          /\ features \in InputVectors \cup SparseVectors
          /\ wallet_address = <<>>
          /\ transactions = <<>>
       \/ /\ phase = "fetched"
          /\ features = NoFeatures
          /\ wallet_address \in WalletIds
          /\ transactions \in Histories

\* risk_scorer.calculate_score(features)
CalculateScore ==
    /\ phase = "input"
    /\ result' = calculate_score(weights, features)
    /\ calls' = calls + 1
    /\ phase' = "scored"
    /\ UNCHANGED <<weights, wallet_address, transactions, features, entropy,
                   history>>
    /\ UNCHANGED batch

\* feature_extractor.extract_features(transactions)
ExtractFeatures ==
    /\ phase = "fetched"
    /\ features' = extract_features(transactions)
    /\ phase' = "extracted"
    /\ UNCHANGED <<weights, wallet_address, transactions, result, entropy, calls,
                   history>>
    /\ UNCHANGED batch

\* WalletRiskAnalyzer.analyze_wallet(wallet_address), from the return of
\* data_provider.get_wallet_transactions on.
AnalyzeWallet ==
    /\ phase = "fetched"
    /\ features' = InjectWalletId(extract_features(transactions), wallet_address)
    /\ result' = calculate_score(weights, features')
    /\ calls' = calls + 1
    /\ phase' = "analyzed"
    /\ UNCHANGED <<weights, wallet_address, transactions, entropy, history>>
    /\ UNCHANGED batch

Next ==
    \/ CalculateScore
    \/ ExtractFeatures
    \/ AnalyzeWallet

Spec == Init /\ [][Next]_vars

\* ------------------------------------------------ a sequence of calls

\* The vectors a caller scores one after the other on the same scorer.
CallVectors ==
    {v \in InputVectors :
         /\ v["liquidation_count"] \in {0, 3}
         /\ v["risky_function_ratio"] = SCALE
         /\ v["avg_gas_price"] = 0
         /\ v["transaction_frequency"] = 2 * SCALE
         /\ v["max_value"] <= Dec(1, 2)}

InitCalls ==
    /\ Constructed
    /\ NoBatch
    /\ phase = "input"
    /\ features \in CallVectors
    /\ wallet_address = <<>>
    /\ transactions = <<>>

\* risk_scorer.calculate_score(f), one more call on the same scorer.
CallScore(f) ==
    /\ calls < MaxCalls
    /\ features' = f
    /\ result' = calculate_score(weights, f)
    /\ calls' = calls + 1
    /\ phase' = "scored"
    /\ UNCHANGED <<weights, wallet_address, transactions, entropy, history>>
    /\ UNCHANGED batch

NextCalls == \E f \in CallVectors : CallScore(f)

SpecCalls == InitCalls /\ [][NextCalls]_vars

\* ------------------------------------------------------ wallet entropy

\* Identifiers: a prefix followed by at most MaxIdLen characters.
IdPrefixes ==
    {<<>>, <<"0", "x">>, <<"-">>, <<" ">>, <<"0", "x", "_">>, <<"e", "_">>}

IdChars == {"3", "e", "g"}

Identifiers ==
    {pre \o body : pre \in IdPrefixes,
                   body \in UNION {[1..n -> IdChars] : n \in 0..MaxIdLen}}

InitEntropy ==
    /\ Constructed
    /\ NoBatch
    /\ phase = "input"
    /\ features = NoFeatures
    /\ transactions = <<>>
    /\ wallet_address \in Identifiers

\* self._get_wallet_entropy(wallet_id)
GetWalletEntropy ==
    /\ phase = "input"
    /\ entropy' = get_wallet_entropy(wallet_address)
    /\ phase' = "entropy"
    /\ UNCHANGED <<weights, wallet_address, transactions, features, result, calls,
                   history>>
    /\ UNCHANGED batch

NextEntropy == GetWalletEntropy

SpecEntropy == InitEntropy /\ [][NextEntropy]_vars

\* ------------------------------------------- repeated calls, recorded

\* The vectors scored repeatedly: no or three liquidations, no or four
\* transactions, without identifier or with the example wallet's, and one
\* vector from which 'liquidation_count' is missing.
RepeatVectors ==
    LET full == {v \in CallVectors :
                     /\ v["max_value"] = 0
                     /\ v["total_gas_cost"] = 420000
                     /\ v["total_transactions"] \in {0, 4}
                     /\ Len(v["wallet_id"]) \in {0, 10}
                     /\ v["wallet_id"] # <<>> => Head(Tail(Tail(v["wallet_id"]))) = "A"}
    IN  full \cup {Without(v, "liquidation_count") :
                       v \in {u \in full : /\ u["liquidation_count"] = 3
                                            /\ u["total_transactions"] = 4
                                            /\ u["wallet_id"] = <<>>}}

InitHistory ==
    /\ Constructed
    /\ NoBatch
    /\ phase = "input"
    /\ features = NoFeatures
    /\ wallet_address = <<>>
    /\ transactions = <<>>

\* Faulty variant: the scorer recalibrates after every score it returns, moving
\* weight from technical_risk to liquidation_risk.
ScoreAgain_Recalibrating(f) ==
    /\ calls < MaxHistory
    /\ features' = f
    /\ result' = calculate_score(weights, f)
    /\ weights' =
           IF result'.kind = "int" /\ weights.technical_risk >= Dec(5, 100)
           THEN [weights EXCEPT !.technical_risk = @ - Dec(5, 100),
                                !.liquidation_risk = @ + Dec(5, 100)]
           ELSE weights
    /\ history' = Append(history, [features |-> f, result |-> result'])
    /\ calls' = calls + 1
    /\ phase' = "scored"
    /\ UNCHANGED <<wallet_address, transactions, entropy>>
    /\ UNCHANGED batch

\* risk_scorer.calculate_score(f), one more call on the same scorer; the
\* call returns or raises, and self.weights is only read.
ScoreAgain(f) ==
    /\ calls < MaxHistory
    /\ features' = f
    /\ result' = calculate_score(weights, f)
    /\ history' = Append(history, [features |-> f, result |-> result'])
    /\ calls' = calls + 1
    /\ phase' = "scored"
    /\ UNCHANGED <<weights, wallet_address, transactions, entropy>>
    /\ UNCHANGED batch

NextHistory == \E f \in RepeatVectors : ScoreAgain(f)

SpecHistory == InitHistory /\ [][NextHistory]_vars

\* ----------------------------------------------------------- batch driver

\* WalletRiskScore(wallet_id, score), the score an integer or 'NA'.
WalletRiskScore(wallet_id, score) == [wallet_id |-> wallet_id, score |-> score]

\* The score field of the record analyze_wallet returns.
ReturnedScore(outcome) == [kind |-> outcome.kind, value |-> outcome.value]

\* main, line 46: the score recorded for a wallet whose analysis raised.
FallbackScore == [kind |-> "int", value |-> 500]

\* The addresses of the input file: two wallets, in any order, repeated or
\* not.
BatchWallets ==
    {<<"0", "x", "A", "B", "C", "D", "E", "F", "0", "1">>,
     <<"0", "x", "0", "0", "0", "0", "0", "3", "e", "7">>}

WalletLists == UNION {[1..n -> BatchWallets] : n \in 0..MaxWallets}

\* What analyze_wallet meets for one wallet: an exception (from the data
\* provider or a later step), or a history returned by the provider: none,
\* a borrow and its repayment, or one liquidation.
FetchOutcomes ==
    LET tx(name) == CHOOSE t \in TxPool : t.function_name = name
    IN  {[raises |-> TRUE, transactions |-> <<>>]}
          \cup {[raises |-> FALSE, transactions |-> h] :
                    h \in {<<>>, <<tx(FnBorrow), tx(FnRepayBorrow)>>,
                           <<tx(FnLiquidateBorrow)>>}}

InitBatch ==
    /\ Constructed
    /\ phase = "loop"
    /\ wallet_addresses \in WalletLists
    /\ position = 0
    /\ scores = <<>>
    /\ fetched = <<>>
    /\ data = <<>>
    /\ features = NoFeatures
    /\ wallet_address = <<>>
    /\ transactions = <<>>

\* Faulty variant: a wallet whose analysis raised is skipped, no record appended.
ProcessWallet_SkipOnFailure(outcome) ==
    /\ phase = "loop"
    /\ position < Len(wallet_addresses)
    /\ position' = position + 1
    /\ wallet_address' = wallet_addresses[position + 1]
    /\ fetched' = Append(fetched, outcome)
    /\ IF outcome.raises
       THEN UNCHANGED <<transactions, features, result, calls, scores>>
       ELSE /\ transactions' = outcome.transactions
            /\ features' = InjectWalletId(extract_features(outcome.transactions),
                                          wallet_addresses[position + 1])
            /\ result' = calculate_score(weights, features')
            /\ calls' = calls + 1
            /\ scores' = Append(scores,
                                WalletRiskScore(wallet_addresses[position + 1],
                                                ReturnedScore(result')))
    /\ UNCHANGED <<weights, entropy, history, wallet_addresses, data, phase>>

\* main, lines 36-48: one iteration of the loop over wallet_addresses. The
\* record analyze_wallet returns is appended; when analyze_wallet raises (in
\* the provider, or calculate_score with a KeyError), the fallback record is.
ProcessWallet(outcome) ==
    /\ phase = "loop"
    /\ position < Len(wallet_addresses)
    /\ position' = position + 1
    /\ wallet_address' = wallet_addresses[position + 1]
    /\ fetched' = Append(fetched, outcome)
    /\ IF outcome.raises
       THEN /\ scores' = Append(scores,
                                WalletRiskScore(wallet_address', FallbackScore))
            /\ UNCHANGED <<transactions, features, result, calls>>
       ELSE /\ transactions' = outcome.transactions
            /\ features' = InjectWalletId(extract_features(outcome.transactions),
                                          wallet_addresses[position + 1])
            /\ result' = calculate_score(weights, features')
            /\ calls' = calls + 1
            /\ scores' =
                   Append(scores,
                          WalletRiskScore(wallet_addresses[position + 1],
                                          IF result'.kind = "KeyError"
                                          THEN FallbackScore
                                          ELSE ReturnedScore(result')))
    /\ UNCHANGED <<weights, entropy, history, wallet_addresses, data, phase>>

\* main, line 50, and CSVExporter.export_scores, line 9: after the loop the
\* list is handed to the exporter, which makes one row of each record.
ExportScores ==
    /\ phase = "loop"
    /\ position = Len(wallet_addresses)
    /\ data' = [i \in 1..Len(scores) |->
                    [wallet_id |-> scores[i].wallet_id,
                     score     |-> scores[i].score]]
    /\ phase' = "exported"
    /\ UNCHANGED <<weights, wallet_address, transactions, features, result,
                   entropy, calls, history, wallet_addresses, position,
                   scores, fetched>>

NextBatch ==
    \/ \E outcome \in FetchOutcomes : ProcessWallet(outcome)
    \/ ExportScores

SpecBatch == InitBatch /\ [][NextBatch]_vars

\* ------------------------------------------------------------- properties

\* A call of calculate_score has returned or raised.
Called == phase \in {"scored", "analyzed"}

\* The call returned an integer.
ReturnedInt == Called /\ result.kind = "int"

\* Every key of the canonical vector is present.
Complete(f) == DOMAIN get_default_features \subseteq DOMAIN f

\* A valid vector: no negative entry, ratios at most 1.
Valid(f) ==
    /\ \A k \in DOMAIN f \ {"function_names", "wallet_id"} : f[k] >= 0
    /\ \A k \in DOMAIN f \cap {"risky_function_ratio", "safe_function_ratio",
                               "value_concentration", "time_regularity"} :
           f[k] <= SCALE

\* C1: calculate_score returns the sentinel 'NA' exactly when
\* features['total_transactions'] == 0; analyze_wallet on an empty history
\* returns it for every wallet identifier; a complete vector with
\* total_transactions > 0 yields an integer.
C1_SentinelIffNoTransactions ==
    Called =>
        /\ result.kind = "NA" <=>
               ("total_transactions" \in DOMAIN features
                    /\ features["total_transactions"] = 0)
        /\ (phase = "analyzed" /\ transactions = <<>>) => result.kind = "NA"
        /\ (Complete(features) /\ features["total_transactions"] > 0)
               => result.kind = "int"

C1_Witness ==
    /\ phase = "analyzed"
    /\ transactions = <<>>
    /\ wallet_address = <<"0", "x", "A", "B", "C", "D", "E", "F", "0", "1">>
    /\ features["wallet_id"] = wallet_address
    /\ result.kind = "NA"

\* C2: for a valid vector with total_transactions > 0, each of the six
\* sub-scores lies in [0,1] and the returned integer lies in [0,1000].
C2_ScoresInRange ==
    (ReturnedInt /\ Valid(features) /\ features["total_transactions"] > 0) =>
        /\ \A k \in DOMAIN result.sub_scores :
               result.sub_scores[k] >= 0 /\ result.sub_scores[k] <= SCALE
        /\ result.value \in 0..1000

C2_Witness ==
    /\ ReturnedInt
    /\ Valid(features)
    /\ features["liquidation_count"] > 3
    /\ result.sub_scores.liquidation_risk = Dec(97, 100)
    /\ result.sub_scores.leverage_risk > Dec(8, 10)
    /\ result.value > 500

\* C3: calculate_score never raises on a vector with total_transactions > 0
\* from which another expected key is missing: an integer is still returned.
C3_MissingKeyStillScores ==
    (Called /\ "total_transactions" \in DOMAIN features
            /\ features["total_transactions"] > 0)
        => result.kind = "int"

\* round(x * 1000) of a fixed-point x >= 0, ties to the even integer.
RoundTimes1000(x) ==
    LET whole == (x * 1000) \div SCALE
        rest  == (x * 1000) % SCALE
    IN  IF 2 * rest > SCALE \/ (2 * rest = SCALE /\ whole % 2 = 1)
        THEN whole + 1 ELSE whole

\* adjusted_score is weighted_score + entropy * 0.05.
AdjustedIsWeightedPlusEntropy ==
    result.adjusted_score =
        result.weighted_score
          + MulFP(get_wallet_entropy(Get(features, "wallet_id", <<>>)),
                  Dec(5, 100))

\* C4 as stated: the final score is
\* clamp(round((weighted_score + entropy*0.05)*1000), 0, 1000).
C4_ScoreIsRounded ==
    ReturnedInt =>
        /\ AdjustedIsWeightedPlusEntropy
        /\ result.value = Min(1000, Max(0, RoundTimes1000(result.adjusted_score)))

\* C4 as amended: the scaled value is truncated toward zero, not rounded,
\* before it is clamped: the score n is the integer with
\* n <= (weighted_score + entropy*0.05)*1000 < n + 1, clamped to [0,1000].
C4_ScoreIsTruncated ==
    ReturnedInt =>
        LET x == result.adjusted_score * 1000
            n == result.value
        IN  /\ AdjustedIsWeightedPlusEntropy
            /\ n \in 0..1000
            /\ n > 0 => n * SCALE <= x
            /\ n < 1000 => x < (n + 1) * SCALE

C4_Witness ==
    /\ ReturnedInt
    /\ result.value \in 1..998
    /\ 2 * ((result.adjusted_score * 1000) % SCALE) > SCALE
    /\ get_wallet_entropy(Get(features, "wallet_id", <<>>)) > 0

C6_WalletIdOnlyThroughEntropy ==
    ReturnedInt =>
        \A w \in WalletIds :
            LET other == calculate_score(weights, Update(features, [wallet_id |-> w]))
            IN  /\ other.sub_scores = result.sub_scores
                /\ other.weighted_score = result.weighted_score
                /\ other.value =
                       FinalScore(result.weighted_score
                                    + MulFP(get_wallet_entropy(w), Dec(5, 100)))

C6_Witness ==
    /\ ReturnedInt
    /\ "wallet_id" \in DOMAIN features
    /\ \E w \in WalletIds :
           /\ w # features["wallet_id"]
           /\ calculate_score(weights, Update(features, [wallet_id |-> w])).value
                  # result.value

\* The canonical default vector: every numeric feature 0, function_names
\* the empty list.
CanonicalDefault ==
    [k \in {"total_transactions", "unique_contracts", "total_value",
            "avg_value", "transaction_frequency", "days_active", "value_std",
            "max_value", "value_concentration", "avg_gas_used",
            "avg_gas_price", "total_gas_cost", "avg_time_between_tx",
            "time_regularity", "time_std", "function_diversity",
            "risky_function_ratio", "safe_function_ratio",
            "liquidation_count", "function_names"} |->
         IF k = "function_names" THEN <<>> ELSE 0]

\* C7: for every transaction sequence extract_features returns a mapping
\* whose key set is exactly the 20 keys of the canonical default vector; for
\* the empty sequence it is that vector, field for field.
C7_ExtractedKeySet ==
    phase = "extracted" =>
        /\ DOMAIN features = DOMAIN CanonicalDefault
        /\ Cardinality(DOMAIN features) = 20
        /\ transactions = <<>> => features = CanonicalDefault

C7_Witness ==
    /\ phase = "extracted"
    /\ Len(transactions) >= 2
    /\ features["max_value"] = 0
    /\ features["liquidation_count"] = 0
    /\ features["total_transactions"] = Len(transactions)

\* C8: _calculate_liquidation_risk is non-decreasing in liquidation_count,
\* the other features held fixed, and constant for counts >= 3.
C8_LiquidationRiskMonotone ==
    ReturnedInt =>
        \A c \in 0..(MaxLiquidations + 1) :
            LET own   == features["liquidation_count"]
                other == calculate_liquidation_risk(
                             [features EXCEPT !["liquidation_count"] = c])
            IN  /\ c <= own => other <= result.sub_scores.liquidation_risk
                /\ c >= own => other >= result.sub_scores.liquidation_risk
                /\ (c >= 3 /\ own >= 3)
                       => other = result.sub_scores.liquidation_risk

C8_Witness ==
    /\ ReturnedInt
    /\ features["liquidation_count"] = 3
    /\ calculate_liquidation_risk([features EXCEPT !["liquidation_count"] = 2])
           < result.sub_scores.liquidation_risk
    /\ calculate_liquidation_risk([features EXCEPT !["liquidation_count"] = 4])
           = result.sub_scores.liquidation_risk

\* The size term of leverage_risk: log-normalized max value, or, when max
\* value is <= 0, total gas cost / 1e18 over the reference threshold 0.02.
SizeTerm(f) ==
    IF f["max_value"] <= 0
    THEN Min(Dec(6, 10), Get(f, "total_gas_cost", 0) \div 2000)
    ELSE Min(Dec(95, 100),
             MulFP(normalize_value(f["max_value"], Dec(1, 1000), 1000 * SCALE),
                   Dec(12, 10)))

\* The volatility term: min(1.0, value_std / max(max_value, 0.001)).
VolatilityTerm(f) ==
    Min(SCALE, DivFP(f["value_std"], Max(f["max_value"], Dec(1, 1000))))

\* C9 as stated: leverage_risk is size*.4
\* + min(0.9, value_concentration*1.1)*.4 + volatility*.2.
C9_LeverageAsSpecified ==
    ReturnedInt =>
        result.sub_scores.leverage_risk =
            MulFP(SizeTerm(features), Dec(4, 10))
              + MulFP(Min(Dec(9, 10),
                          MulFP(features["value_concentration"], Dec(11, 10))),
                      Dec(4, 10))
              + MulFP(VolatilityTerm(features), Dec(2, 10))

\* C9 as amended: the concentration term is
\* min(0.95, value_concentration*1.5); the weights .4/.4/.2 and the
\* volatility term are as stated.
C9_LeverageAsCoded ==
    ReturnedInt =>
        result.sub_scores.leverage_risk =
            MulFP(SizeTerm(features), Dec(4, 10))
              + MulFP(Min(Dec(95, 100),
                          MulFP(features["value_concentration"], Dec(15, 10))),
                      Dec(4, 10))
              + MulFP(VolatilityTerm(features), Dec(2, 10))

C9_Witness ==
    /\ ReturnedInt
    /\ features["max_value"] > 0
    /\ features["value_concentration"] \in (Dec(1, 2) + 1)..(SCALE - 1)
    /\ features["value_std"] > 0
    /\ result.sub_scores.leverage_risk > Dec(8, 10)

\* C10: the weight table is the 6-factor profile .20/.20/.15/.15/.15/.15,
\* it sums to 1.0, and it is the same after any sequence of calculate_score
\* calls.
C10_WeightsFixedAndSumToOne ==
    /\ weights = [liquidation_risk     |-> Dec(20, 100),
                  leverage_risk        |-> Dec(20, 100),
                  activity_risk        |-> Dec(15, 100),
                  behavioral_risk      |-> Dec(15, 100),
                  trading_pattern_risk |-> Dec(15, 100),
                  technical_risk       |-> Dec(15, 100)]
    /\ weights.liquidation_risk + weights.leverage_risk
         + weights.activity_risk + weights.behavioral_risk
         + weights.trading_pattern_risk + weights.technical_risk = SCALE

C10_Witness ==
    /\ calls >= 2
    /\ result.kind = "int"
    /\ result.weighted_score > 0

\* The history of the worked example: 'borrow' then 'repayBorrow', values
\* 0.0, gas_used 21000 each, gas_price 2e10 wei (20 gwei) each, timestamps
\* 1000 and 87400.
IsExampleHistory(txs) ==
    /\ Len(txs) = 2
    /\ txs[1].function_name = FnBorrow
    /\ txs[2].function_name = FnRepayBorrow
    /\ \A i \in 1..2 : /\ txs[i].value = 0
                       /\ txs[i].gas_used = 21000
                       /\ txs[i].gas_price = 20
    /\ txs[1].timestamp = 1000
    /\ txs[2].timestamp = 87400

\* C11: for the example history extract_features yields liquidation_count
\* = 0, risky_function_ratio = 1.0, days_active = 1 and
\* transaction_frequency = 2.0, and _calculate_liquidation_risk on that
\* vector is 0.9 * 0.3 = 0.27.
C11_WorkedExample ==
    (phase \in {"extracted", "analyzed"} /\ IsExampleHistory(transactions)) =>
        /\ features["liquidation_count"] = 0
        /\ features["risky_function_ratio"] = SCALE
        /\ features["days_active"] = SCALE
        /\ features["transaction_frequency"] = 2 * SCALE
        /\ calculate_liquidation_risk(features)
               = MulFP(Dec(9, 10), Dec(3, 10))
        /\ calculate_liquidation_risk(features) = Dec(27, 100)
        /\ phase = "analyzed"
               => result.sub_scores.liquidation_risk = Dec(27, 100)

C11_Witness ==
    /\ phase = "extracted"
    /\ IsExampleHistory(transactions)
    /\ features["total_transactions"] = 2
    /\ features["risky_function_ratio"] = SCALE

\* A function name matches a set when it contains, letter case ignored, one
\* of the set's names; the empty name contains none.
MatchesAny(name, set) == \E r \in set : Contains(Lower(name), Lower(r))

\* The number of transactions whose function name matches the set.
Matched(txs, set) ==
    Cardinality({i \in 1..Len(txs) : MatchesAny(txs[i].function_name, set)})

\* The number of transactions that call liquidateBorrow.
Liquidations(txs) == Matched(txs, {FnLiquidateBorrow})

\* The ratios are the matched counts over the count of all transactions
\* (those with an empty name included), and lie in [0,1].
RatiosAreMatchedOverTotal ==
    LET n == Len(transactions)
    IN  /\ features["total_transactions"] = n
        /\ features["risky_function_ratio"]
               = DivFP(Matched(transactions, risky_functions), n)
        /\ features["safe_function_ratio"]
               = DivFP(Matched(transactions, safe_functions), n)
        /\ features["risky_function_ratio"] \in 0..SCALE
        /\ features["safe_function_ratio"] \in 0..SCALE

C13_SameVectorSameOutcome ==
    /\ \A i, j \in 1..Len(history) :
           history[i].features = history[j].features
               => history[i].result = history[j].result
    /\ weights = InitialWeights

C13_Witness ==
    /\ Len(history) = 3
    /\ history[1].features = history[3].features
    /\ history[1].result.kind = "int"
    /\ history[2].result.kind = "int"
    /\ history[2].result.value # history[1].result.value
    /\ history[3].result = history[1].result

\* The record of the wallet at position i of the input, given what its
\* analysis met: the fallback score 500 when it raised, otherwise the score
\* analyze_wallet returns for the history fetched.
RecordFor(i) ==
    LET w == wallet_addresses[i]
    IN  IF fetched[i].raises
        THEN [wallet_id |-> w, score |-> [kind |-> "int", value |-> 500]]
        ELSE LET r == calculate_score(
                          InitialWeights,
                          InjectWalletId(
                              extract_features(fetched[i].transactions), w))
             IN  [wallet_id |-> w,
                  score |-> [kind |-> r.kind, value |-> r.value]]

\* C14: the batch driver emits exactly one WalletRiskScore record per input
\* wallet address, in input order and with that wallet's identifier, for
\* any pattern of per-wallet failures: a wallet whose analysis raises gets
\* a record with the fallback score 500 and processing continues, so a
\* failure never drops, duplicates or reorders the records of the others.
C14_OneRecordPerWallet ==
    /\ Len(scores) = position
    /\ position <= Len(wallet_addresses)
    /\ \A i \in 1..Len(scores) :
           /\ scores[i].wallet_id = wallet_addresses[i]
           /\ fetched[i].raises => scores[i].score.value = 500
           /\ scores[i] = RecordFor(i)
    /\ phase = "exported" =>
           /\ Len(scores) = Len(wallet_addresses)
           /\ Len(data) = Len(wallet_addresses)
           /\ \A i \in 1..Len(data) :
                  /\ data[i].wallet_id = wallet_addresses[i]
                  /\ data[i].score = RecordFor(i).score

C14_Witness ==
    /\ phase = "exported"
    /\ Len(wallet_addresses) = 3
    /\ wallet_addresses[1] = wallet_addresses[3]
    /\ wallet_addresses[2] # wallet_addresses[1]
    /\ ~fetched[1].raises
    /\ fetched[2].raises
    /\ ~fetched[3].raises
    /\ data[1].score.kind = "int"
    /\ data[1].score.value # 500
    /\ data[2].score.value = 500
    /\ data[3].score.kind = "NA"

====
